---- MODULE Spec2Model ----
(***************************************************************************)
(* Model of valhalla/knowledge.py: KnowledgeImporter.run and the methods   *)
(* it calls (_build_attack_group_mapping, _process_rules,                  *)
(* _add_refs_for_id, _add_tags_for_indicator and the two                   *)
(* _add_*_indicator_by_external_id methods).                               *)
(*                                                                         *)
(* Strings that the code inspects character by character (tags, reference  *)
(* URLs, external ids) are sequences of one-character strings.  Every call *)
(* on a collaborator (graph store, feed client, HTTP, logger) is recorded  *)
(* as an event of the run's trace, with the arguments the code passes and  *)
(* the outcome the collaborator gave.                                      *)
(***************************************************************************)
EXTENDS Integers, Sequences, FiniteSets, TLC

\* ---------------------------------------------------------------- bounds
MaxRuns == 2
MaxRules == 2
MaxTags == 2
MaxRefs == 2
MaxObjs == 2

\* ------------------------------------------------------------ basic helpers
SeqsUpTo(S, n) == UNION {[1..k -> S] : k \in 0..n}

SetMin(S) == CHOOSE x \in S : \A y \in S : x <= y

\* str.find(c): the first index of c in s, 0 when c does not occur (1-based)
Find(s, c) ==
  LET idx == {k \in 1..Len(s) : s[k] = c}
  IN IF idx = {} THEN 0 ELSE SetMin(idx)

\* the first index >= from of a character of C in s, Len(s)+1 when there is none
FindAnyFrom(s, C, from) ==
  LET idx == {k \in from..Len(s) : s[k] \in C}
  IN IF idx = {} THEN Len(s) + 1 ELSE SetMin(idx)

Prefix(s, n) == SubSeq(s, 1, n)
Suffix(s, n) == SubSeq(s, n, Len(s))

\* Python's None, for values that are one-character sequences and for ids
NoneChars == <<"<None>">>
None == "<None>"
Truthy(s) == s # NoneChars /\ s # <<>>

\* ------------------------------------------------------------ characters
Digits == {"0", "1", "2", "3", "4", "5", "6", "7", "8", "9"}
LowerSeq == <<"a","b","c","d","e","f","g","h","i","j","k","l","m",
              "n","o","p","q","r","s","t","u","v","w","x","y","z">>
UpperSeq == <<"A","B","C","D","E","F","G","H","I","J","K","L","M",
              "N","O","P","Q","R","S","T","U","V","W","X","Y","Z">>
Letters == {LowerSeq[k] : k \in 1..Len(LowerSeq)} \cup {UpperSeq[k] : k \in 1..Len(UpperSeq)}
LowerChar(c) ==
  IF \E k \in 1..Len(UpperSeq) : UpperSeq[k] = c
  THEN LowerSeq[CHOOSE k \in 1..Len(UpperSeq) : UpperSeq[k] = c]
  ELSE c
Lower(s) == [k \in 1..Len(s) |-> LowerChar(s[k])]

\* ------------------------------------------------- re.search(r"^X\d{4}$", tag)
\* "$" matches at the end of the string and also just before a newline that
\* ends the string.
ReSearchShape(letter, tag) ==
  LET n == Len(tag)
      body == IF n = 6 /\ tag[6] = "\n" THEN SubSeq(tag, 1, 5) ELSE tag
  IN /\ Len(body) = 5
     /\ body[1] = letter
     /\ \A k \in 2..5 : body[k] \in Digits

MatchesAttackPattern(tag) == ReSearchShape("T", tag)
\* a copy-and-paste slip: the intrusion-set test made with the technique shape
MatchesIntrusionSetAsT(tag) == ReSearchShape("T", tag)
MatchesIntrusionSet(tag) == ReSearchShape("G", tag)

\* --------------------------------------------- urllib.parse.urlparse / geturl
\* urlsplit's steps on a string: scheme (lower-cased), netloc with the IPv6
\* bracket check (ValueError), fragment, query; urlunsplit puts the parts
\* together again and leaves out an empty query or fragment.  The reference
\* strings of the model contain no ";" (params) and no whitespace to strip.
SchemeChars == Letters \cup Digits \cup {"+", "-", "."}
HTTP == <<"h", "t", "t", "p">>
HTTPS == <<"h", "t", "t", "p", "s">>
FTP == <<"f", "t", "p">>
UsesNetloc == {HTTP, HTTPS, FTP}

SplitScheme(url) ==
  LET c == Find(url, ":")
  IN IF /\ c > 1
        /\ url[1] \in Letters
        /\ \A k \in 1..(c - 1) : url[k] \in SchemeChars
     THEN [scheme |-> Lower(Prefix(url, c - 1)), rest |-> Suffix(url, c + 1)]
     ELSE [scheme |-> <<>>, rest |-> url]

SplitNetloc(url) ==
  IF Len(url) >= 2 /\ url[1] = "/" /\ url[2] = "/"
  THEN LET delim == FindAnyFrom(url, {"/", "?", "#"}, 3)
       IN [netloc |-> SubSeq(url, 3, delim - 1), rest |-> Suffix(url, delim)]
  ELSE [netloc |-> <<>>, rest |-> url]

\* url.split(sep, 1) when sep occurs in url
SplitAt(url, sep) ==
  LET k == Find(url, sep)
  IN IF k = 0 THEN [head |-> url, tail |-> <<>>]
     ELSE [head |-> Prefix(url, k - 1), tail |-> Suffix(url, k + 1)]

InvalidIPv6(netloc) ==
  \/ Find(netloc, "[") # 0 /\ Find(netloc, "]") = 0
  \/ Find(netloc, "]") # 0 /\ Find(netloc, "[") = 0

urlparse(ref) ==
  LET s == SplitScheme(ref)
      n == SplitNetloc(s.rest)
      f == SplitAt(n.rest, "#")
      q == SplitAt(f.head, "?")
  IN [error |-> InvalidIPv6(n.netloc),
      scheme |-> s.scheme,
      netloc |-> n.netloc,
      path |-> q.head,
      query |-> q.tail,
      fragment |-> f.tail]

geturl(p) ==
  LET withSlash == IF p.path # <<>> /\ p.path[1] # "/" THEN <<"/">> \o p.path ELSE p.path
      u1 == IF \/ p.netloc # <<>>
               \/ /\ p.scheme # <<>>
                  /\ p.scheme \in UsesNetloc
                  /\ ~(Len(p.path) >= 2 /\ p.path[1] = "/" /\ p.path[2] = "/")
            THEN <<"/", "/">> \o p.netloc \o withSlash
            ELSE p.path
      u2 == IF p.scheme # <<>> THEN p.scheme \o <<":">> \o u1 ELSE u1
      u3 == IF p.query # <<>> THEN u2 \o <<"?">> \o p.query ELSE u2
  IN IF p.fragment # <<>> THEN u3 \o <<"#">> \o p.fragment ELSE u3

RuleReferencePrefix ==
  <<"R","u","l","e"," ","R","e","f","e","r","e","n","c","e",":"," ">>

\* ----------------------------------------------------- the attack mapping
\* dict.get(key): None when the key is absent
Get(m, key) == IF key \in DOMAIN m THEN m[key] ELSE None

\* m[key] = value
Put(m, key, value) ==
  [x \in (DOMAIN m) \cup {key} |-> IF x = key THEN value ELSE m[x]]

EmptyMapping == [x \in {} |-> None]

RecognizedTypes == {"attack-pattern", "intrusion-set"}

\* the loop of _build_attack_group_mapping over response.objects, from object k
\* on: the mapping it leaves behind and the exception that ended it, if any
\* (external_references[0] of an object with no external reference).
RECURSIVE BuildLoop(_, _, _)
BuildLoop(m, objs, k) ==
  IF k > Len(objs) THEN [mapping |-> m, exc |-> None]
  ELSE LET obj == objs[k]
       IN IF obj.type \in RecognizedTypes
          THEN IF Len(obj.external_references) = 0
               THEN [mapping |-> m, exc |-> "IndexError"]
               ELSE IF Truthy(obj.external_references[1]) /\ obj.id # ""
                    THEN BuildLoop(Put(m, obj.external_references[1], obj.id), objs, k + 1)
                    ELSE BuildLoop(m, objs, k + 1)
          ELSE BuildLoop(m, objs, k + 1)

\* ------------------------------------------------------------------ state
VARIABLES
  pc,               \* where run() stands
  state,            \* run's argument: the prior checkpoint
  result,           \* what run returned last
  ATTACK_MAPPING,   \* the class attribute KnowledgeImporter._ATTACK_MAPPING
  attack_response,  \* _build_attack_group_mapping's local: the parsed dataset
  rules,            \* _process_rules' response.rules
  i,                \* position of yr in response.rules
  indicator,        \* _process_rules' local variable indicator (its "id")
  refs, obj_id, r,          \* frame of _add_refs_for_id and its loop position
  tags, indicator_id, t,    \* frame of _add_tags_for_indicator and its position
  trace,            \* the calls on collaborators made by this run, in order
  exc,              \* the exception that left run(), None when there is none
  runs,             \* runs started so far
  now               \* the clock read by datetime.utcnow()

vars == <<pc, state, result, ATTACK_MAPPING, attack_response, rules, i, indicator,
          refs, obj_id, r, tags, indicator_id, t, trace, exc, runs, now>>

\* a local variable that was never assigned
Unbound == "<unbound>"
\* the outcome of a call that raised
Raised == "<raised>"

KNOWLEDGE_IMPORTER_STATE == "knowledge_importer_state"
\* checkpoints are mappings, written as sets of <<key, value>> pairs
EmptyState == {}
NoResult == {<<"<no result>", 0>>}

\* ----------------------------------------------------------------- events
Blank ==
  [op |-> "", sig |-> 0, pos |-> 0, id |-> "", value |-> <<>>, description |-> <<>>,
   other |-> "", toType |-> "", res |-> ""]

EvLog(level, sig, pos, msg) ==
  [Blank EXCEPT !.op = level, !.sig = sig, !.pos = pos, !.other = msg]

EvFetch(op, res) == [Blank EXCEPT !.op = op, !.res = res]

EvIndicatorCreate(sig, res) ==
  [Blank EXCEPT !.op = "indicator.create", !.sig = sig, !.res = res]

EvExternalReferenceCreate(sig, pos, url, res) ==
  [Blank EXCEPT !.op = "external_reference.create", !.sig = sig, !.pos = pos,
                !.value = url, !.description = RuleReferencePrefix \o url, !.res = res]

EvAddExternalReference(sig, pos, id, refId, res) ==
  [Blank EXCEPT !.op = "stix_entity.add_external_reference", !.sig = sig, !.pos = pos,
                !.id = id, !.other = refId, !.res = res]

EvRead(op, sig, pos, id, res) ==
  [Blank EXCEPT !.op = op, !.sig = sig, !.pos = pos, !.other = id, !.res = res]

EvRelationCreate(sig, pos, fromId, toType, toId, res) ==
  [Blank EXCEPT !.op = "stix_relation.create", !.sig = sig, !.pos = pos, !.id = fromId,
                !.toType = toType, !.other = toId, !.res = res]

EvTagCreate(sig, pos, value, res) ==
  [Blank EXCEPT !.op = "tag.create", !.sig = sig, !.pos = pos, !.value = value, !.res = res]

EvAddTag(sig, pos, id, tagId, res) ==
  [Blank EXCEPT !.op = "stix_entity.add_tag", !.sig = sig, !.pos = pos, !.id = id,
                !.other = tagId, !.res = res]

\* the requests that write to the graph store
WriteOps ==
  {"indicator.create", "external_reference.create", "stix_entity.add_external_reference",
   "stix_relation.create", "tag.create", "stix_entity.add_tag"}
ReadOps == {"attack_pattern.read", "intrusion_set.read"}

\* ------------------------------------------------- what the store answers
IndicatorIds == {"indicator--1", "indicator--2"}
ExternalReferenceIds == {"external-reference--1"}
LabelIds == {"label--1"}
Ok == "ok"
Entity == "entity"
Absent == "absent"

\* An outcome of a piece of code: the events it produced and whether it ended
\* by raising.  Chain(X, Y): X, then Y unless X raised.
NoOp == [evs |-> <<>>, raised |-> FALSE]
Chain(X, Y) ==
  {IF x.raised THEN x ELSE [evs |-> x.evs \o y.evs, raised |-> y.raised] : x \in X, y \in Y}

\* ------------------------- _add_attack_pattern_indicator_by_external_id
AddAttackPatternIndicatorByExternalId(external_id, ind, sig, pos) ==
  LET attack_pattern_id == Get(ATTACK_MAPPING, external_id)
  IN IF attack_pattern_id = None \/ attack_pattern_id = ""
     THEN {[evs |-> <<EvLog("log_info", sig, pos, "no attack_pattern found")>>,
            raised |-> FALSE]}
     ELSE LET rd(res) == EvRead("attack_pattern.read", sig, pos, attack_pattern_id, res)
              rel(res) == EvRelationCreate(sig, pos, ind, "Attack-Pattern",
                                           attack_pattern_id, res)
          IN {[evs |-> <<rd(Raised)>>, raised |-> TRUE],
              [evs |-> <<rd(Absent),
                         EvLog("log_info", sig, pos, "attack pattern not found in OpenCTI")>>,
               raised |-> FALSE],
              [evs |-> <<rd(Entity), rel(Ok)>>, raised |-> FALSE],
              [evs |-> <<rd(Entity), rel(Raised)>>, raised |-> TRUE]}

\* --------------------------- _add_intrusion_set_indicator_by_external_id
AddIntrusionSetIndicatorByExternalId(external_id, ind, sig, pos) ==
  LET intrusion_set_id == Get(ATTACK_MAPPING, external_id)
  IN IF intrusion_set_id = "" \/ intrusion_set_id = None
     THEN {[evs |-> <<EvLog("log_info", sig, pos, "no intrusion_set found")>>,
            raised |-> FALSE]}
     ELSE LET rd(res) == EvRead("intrusion_set.read", sig, pos, intrusion_set_id, res)
              rel(res) == EvRelationCreate(sig, pos, ind, "Intrusion-Set",
                                           intrusion_set_id, res)
          IN {[evs |-> <<rd(Raised)>>, raised |-> TRUE],
              [evs |-> <<rd(Absent),
                         EvLog("log_info", sig, pos, "intrusion set not found in OpenCTI")>>,
               raised |-> FALSE],
              [evs |-> <<rd(Entity), rel(Ok)>>, raised |-> FALSE],
              [evs |-> <<rd(Entity), rel(Raised)>>, raised |-> TRUE]}

\* ------------- the hygiene tag of one tag: tag.create, then stix_entity.add_tag
HygieneTag(tag, ind, sig, pos) ==
  {[evs |-> <<EvTagCreate(sig, pos, tag, Raised)>>, raised |-> TRUE]}
  \cup UNION {
    {[evs |-> <<EvTagCreate(sig, pos, tag, lid), EvAddTag(sig, pos, ind, lid, Ok)>>,
      raised |-> FALSE],
     [evs |-> <<EvTagCreate(sig, pos, tag, lid), EvAddTag(sig, pos, ind, lid, Raised)>>,
      raised |-> TRUE]} : lid \in LabelIds}

\* a slip: the hygiene tag made only for a tag that matched neither shape
TagOutcomesElse(tag, ind, sig, pos) ==
  LET ap == IF MatchesAttackPattern(tag)
            THEN AddAttackPatternIndicatorByExternalId(tag, ind, sig, pos)
            ELSE {NoOp}
      is == IF MatchesIntrusionSet(tag)
            THEN AddIntrusionSetIndicatorByExternalId(tag, ind, sig, pos)
            ELSE {NoOp}
  IN IF MatchesAttackPattern(tag) \/ MatchesIntrusionSet(tag)
     THEN Chain(ap, is)
     ELSE HygieneTag(tag, ind, sig, pos)

\* ------------------ one pass of the loop body of _add_tags_for_indicator
TagOutcomes(tag, ind, sig, pos) ==
  LET ap == IF MatchesAttackPattern(tag)
            THEN AddAttackPatternIndicatorByExternalId(tag, ind, sig, pos)
            ELSE {NoOp}
      is == IF MatchesIntrusionSet(tag)
            THEN AddIntrusionSetIndicatorByExternalId(tag, ind, sig, pos)
            ELSE {NoOp}
  IN Chain(Chain(ap, is), HygieneTag(tag, ind, sig, pos))

\* a slip: a URL that does not parse ends the linker instead of being skipped
RefOutcomesAbortOnBadUrl(ref, id, sig, pos) ==
  IF ref = <<"-">> THEN {NoOp}
  ELSE LET san_url == urlparse(ref)
       IN IF san_url.error
          THEN {[evs |-> <<EvLog("log_error", sig, pos, "error parsing ref url")>>,
                 raised |-> TRUE]}
          ELSE LET mk(res) == EvExternalReferenceCreate(sig, pos, geturl(san_url), res)
               IN {[evs |-> <<mk(Raised)>>, raised |-> TRUE]}
                  \cup UNION {
                    {[evs |-> <<mk(rid), EvAddExternalReference(sig, pos, id, rid, Ok)>>,
                      raised |-> FALSE],
                     [evs |-> <<mk(rid), EvAddExternalReference(sig, pos, id, rid, Raised)>>,
                      raised |-> TRUE]} : rid \in ExternalReferenceIds}

\* ------------------------- one pass of the loop body of _add_refs_for_id
DASH == <<"-">>
RefOutcomes(ref, id, sig, pos) ==
  IF ref = DASH THEN {NoOp}
  ELSE LET san_url == urlparse(ref)
       IN IF san_url.error
          THEN {[evs |-> <<EvLog("log_error", sig, pos, "error parsing ref url")>>,
                 raised |-> FALSE]}
          ELSE LET mk(res) == EvExternalReferenceCreate(sig, pos, geturl(san_url), res)
               IN {[evs |-> <<mk(Raised)>>, raised |-> TRUE]}
                  \cup UNION {
                    {[evs |-> <<mk(rid), EvAddExternalReference(sig, pos, id, rid, Ok)>>,
                      raised |-> FALSE],
                     [evs |-> <<mk(rid), EvAddExternalReference(sig, pos, id, rid, Raised)>>,
                      raised |-> TRUE]} : rid \in ExternalReferenceIds}

\* refs == {}: refs is a list, and a list never compares equal to a dict
EqEmptyDict(l) == FALSE

\* ----------------------------------------------------------------- inputs
T1059 == <<"T", "1", "0", "5", "9">>
G0016 == <<"G", "0", "0", "1", "6">>
APT == <<"A", "P", "T">>
URL_A == <<"h","t","t","p",":","/","/","a","/","p">>

\* what requests.get + StixEnterpriseAttack.parse_obj can deliver: objects with
\* an id, a type and the external_id of each of their external references
TaxonomyObjects ==
  {[type |-> "attack-pattern", id |-> "attack-pattern--a", external_references |-> <<T1059>>],
   [type |-> "attack-pattern", id |-> "attack-pattern--b", external_references |-> <<T1059>>],
   [type |-> "intrusion-set", id |-> "intrusion-set--a", external_references |-> <<T1059>>],
   [type |-> "attack-pattern", id |-> "attack-pattern--a", external_references |-> <<>>],
   [type |-> "attack-pattern", id |-> "", external_references |-> <<T1059>>],
   [type |-> "attack-pattern", id |-> "attack-pattern--a", external_references |-> <<NoneChars>>],
   [type |-> "malware", id |-> "malware--a", external_references |-> <<>>]}
Datasets == SeqsUpTo(TaxonomyObjects, MaxObjs)

\* what get_rules_json + ApiResponse.parse_obj can deliver
FeedRules ==
  {[reference |-> DASH, tags |-> <<>>],
   [reference |-> URL_A, tags |-> <<T1059, APT>>]}
Feeds == SeqsUpTo(FeedRules, MaxRules)

Unavailable == "unavailable"
Malformed == "malformed payload"
FetchFailures == {Unavailable, Malformed}

\* ------------------------------------------------------------------- Init
Init ==
  /\ pc = "idle"
  /\ state = EmptyState
  /\ result = NoResult
  /\ ATTACK_MAPPING = EmptyMapping
  /\ attack_response = <<>>
  /\ rules = <<>>
  /\ i = 0
  /\ indicator = Unbound
  /\ refs = <<>> /\ obj_id = "" /\ r = 0
  /\ tags = <<>> /\ indicator_id = "" /\ t = 0
  /\ trace = <<>>
  /\ exc = None
  /\ runs = 0
  /\ now = 0

\* ------------------------------------------------------------ run, line 50
\* The caller invokes run with the checkpoint it holds: none yet, or the one
\* the last run returned.  A further run is modelled only after a run that
\* returned: what the caller does with an exception is not part of this file.
StartRun ==
  /\ pc \in {"idle", "returned"}
  /\ runs < MaxRuns
  /\ runs' = runs + 1
  /\ \E s \in {EmptyState} \cup (IF result = NoResult THEN {} ELSE {result}) : state' = s
  /\ trace' = <<EvLog("log_info", 0, 0, "running Knowledge importer")>>
  /\ pc' = "build"
  /\ exc' = None
  /\ attack_response' = <<>>
  /\ rules' = <<>> /\ i' = 0 /\ indicator' = Unbound
  /\ refs' = <<>> /\ obj_id' = "" /\ r' = 0
  /\ tags' = <<>> /\ indicator_id' = "" /\ t' = 0
  /\ UNCHANGED <<result, ATTACK_MAPPING, now>>

\* ----------------------------------- _build_attack_group_mapping, line 52
Build ==
  /\ pc = "build"
  /\ \/ \E f \in FetchFailures :
          /\ trace' = trace \o <<EvFetch("requests.get", f),
                                 EvLog("log_error", 0, 0, "error downloading attack data")>>
          /\ pc' = "process"
          /\ UNCHANGED <<ATTACK_MAPPING, attack_response, exc>>
     \/ \E objs \in Datasets :
          LET b == BuildLoop(ATTACK_MAPPING, objs, 1)
          IN /\ trace' = trace \o <<EvFetch("requests.get", Ok)>>
             /\ attack_response' = objs
             /\ ATTACK_MAPPING' = b.mapping
             /\ exc' = b.exc
             /\ pc' = IF b.exc = None THEN "process" ELSE "raised"
  /\ UNCHANGED <<state, result, rules, i, indicator, refs, obj_id, r,
                 tags, indicator_id, t, runs, now>>

\* --------------------------------------- _process_rules, lines 60 to 65
FetchRules ==
  /\ pc = "process"
  /\ \/ \E f \in FetchFailures :
          /\ trace' = trace \o <<EvFetch("get_rules_json", f),
                                 EvLog("log_error", 0, 0, "error downloading rules")>>
          /\ pc' = "finish"
          /\ UNCHANGED <<rules, i>>
     \/ \E feed \in Feeds :
          /\ trace' = trace \o <<EvFetch("get_rules_json", Ok)>>
          /\ rules' = feed
          /\ i' = 1
          /\ pc' = "loop"
  /\ attack_response' = <<>>
  /\ indicator' = Unbound
  /\ UNCHANGED <<state, result, ATTACK_MAPPING, refs, obj_id, r,
                 tags, indicator_id, t, exc, runs, now>>

\* --------------- _process_rules, lines 67 to 85: indicator.create for yr,
\* then the evaluation of indicator["id"] and the call of _add_refs_for_id
CreateIndicator ==
  /\ pc = "loop"
  /\ i <= Len(rules)
  /\ \E out \in IndicatorIds \cup {Raised} :
       LET evs == IF out = Raised
                  THEN <<EvIndicatorCreate(i, Raised),
                         EvLog("log_error", i, 0, "error creating indicator")>>
                  ELSE <<EvIndicatorCreate(i, out)>>
           ind == IF out = Raised THEN indicator ELSE out
       IN /\ trace' = trace \o evs
          /\ indicator' = ind
          /\ IF ind = Unbound
             THEN /\ pc' = "raised"
                  /\ exc' = "UnboundLocalError"
                  /\ UNCHANGED <<refs, obj_id, r>>
             ELSE /\ pc' = "refs"
                  /\ refs' = <<rules[i].reference>>
                  /\ obj_id' = ind
                  /\ r' = 1
                  /\ UNCHANGED exc
  /\ UNCHANGED <<state, result, ATTACK_MAPPING, attack_response, rules, i,
                 tags, indicator_id, t, runs, now>>

\* ------------------------------------- _add_refs_for_id, lines 109 to 125
AddRef ==
  /\ pc = "refs"
  /\ ~(EqEmptyDict(refs) \/ obj_id = "")
  /\ r <= Len(refs)
  /\ \E o \in RefOutcomes(refs[r], obj_id, i, r) :
       /\ trace' = trace \o o.evs
       /\ IF o.raised
          THEN pc' = "raised" /\ exc' = "StoreError" /\ UNCHANGED r
          ELSE r' = r + 1 /\ UNCHANGED <<pc, exc>>
  /\ UNCHANGED <<state, result, ATTACK_MAPPING, attack_response, rules, i, indicator,
                 refs, obj_id, tags, indicator_id, t, runs, now>>

\* _add_refs_for_id returns: by its guard (lines 106, 107) or at the end of
\* its loop
RefsReturn ==
  /\ pc = "refs"
  /\ \/ EqEmptyDict(refs) \/ obj_id = ""
     \/ r > Len(refs)
  /\ pc' = "after_refs"
  /\ UNCHANGED <<state, result, ATTACK_MAPPING, attack_response, rules, i, indicator,
                 refs, obj_id, r, tags, indicator_id, t, trace, exc, runs, now>>

\* ------------------ _process_rules, line 86: _add_tags_for_indicator is called
CallTags ==
  /\ pc = "after_refs"
  /\ pc' = "tags"
  /\ tags' = rules[i].tags
  /\ indicator_id' = indicator
  /\ t' = 1
  /\ UNCHANGED <<state, result, ATTACK_MAPPING, attack_response, rules, i, indicator,
                 refs, obj_id, r, trace, exc, runs, now>>

\* a slip: the tags handled from the last to the first
AddTagReversed ==
  /\ pc = "tags"
  /\ t <= Len(tags)
  /\ \E o \in TagOutcomes(tags[Len(tags) + 1 - t], indicator_id, i, Len(tags) + 1 - t) :
       /\ trace' = trace \o o.evs
       /\ IF o.raised
          THEN pc' = "raised" /\ exc' = "StoreError" /\ UNCHANGED t
          ELSE t' = t + 1 /\ UNCHANGED <<pc, exc>>
  /\ UNCHANGED <<state, result, ATTACK_MAPPING, attack_response, rules, i, indicator,
                 refs, obj_id, r, tags, indicator_id, runs, now>>

\* ------------------------------ _add_tags_for_indicator, lines 89 to 103
AddTag ==
  /\ pc = "tags"
  /\ t <= Len(tags)
  /\ \E o \in TagOutcomes(tags[t], indicator_id, i, t) :
       /\ trace' = trace \o o.evs
       /\ IF o.raised
          THEN pc' = "raised" /\ exc' = "StoreError" /\ UNCHANGED t
          ELSE t' = t + 1 /\ UNCHANGED <<pc, exc>>
  /\ UNCHANGED <<state, result, ATTACK_MAPPING, attack_response, rules, i, indicator,
                 refs, obj_id, r, tags, indicator_id, runs, now>>

\* _add_tags_for_indicator returns and the loop of _process_rules goes on
TagsReturn ==
  /\ pc = "tags"
  /\ t > Len(tags)
  /\ pc' = "loop"
  /\ i' = i + 1
  /\ UNCHANGED <<state, result, ATTACK_MAPPING, attack_response, rules, indicator,
                 refs, obj_id, r, tags, indicator_id, t, trace, exc, runs, now>>

\* the loop of _process_rules is over
LoopDone ==
  /\ pc = "loop"
  /\ i > Len(rules)
  /\ pc' = "finish"
  /\ UNCHANGED <<state, result, ATTACK_MAPPING, attack_response, rules, i, indicator,
                 refs, obj_id, r, tags, indicator_id, t, trace, exc, runs, now>>

\* ------------------------------------------------- run, lines 55 to 57
Return ==
  /\ pc = "finish"
  /\ now' = now + 1
  /\ result' = {<<KNOWLEDGE_IMPORTER_STATE, now + 1>>}
  /\ trace' = trace \o <<EvLog("log_info", 0, 0, "knowledge importer completed")>>
  /\ pc' = "returned"
  /\ UNCHANGED <<state, ATTACK_MAPPING, attack_response, rules, i, indicator,
                 refs, obj_id, r, tags, indicator_id, t, exc, runs>>

Next ==
  \/ StartRun
  \/ Build
  \/ FetchRules
  \/ CreateIndicator
  \/ AddRef
  \/ RefsReturn
  \/ CallTags
  \/ AddTag
  \/ TagsReturn
  \/ LoopDone
  \/ Return

Spec == Init /\ [][Next]_vars

\* ------------------------------------ _add_tags_for_indicator on its own
\* The method is entered with any tag list, an indicator id and the mapping
\* as earlier builds left it (its values are non-empty object ids).
T1059NL == <<"T", "1", "0", "5", "9", "\n">>
T10590 == <<"T", "1", "0", "5", "9", "0">>
T105X == <<"T", "1", "0", "5", "x">>
TagValues == {T1059, G0016, APT, T1059NL, T10590, T105X}
TagLists == SeqsUpTo(TagValues, MaxTags)

MappingKeys == {T1059, G0016}
MappingIds == {"attack-pattern--a", "intrusion-set--a"}
Mappings == UNION {[D -> MappingIds] : D \in SUBSET MappingKeys}

InitTags ==
  /\ pc = "tags"
  /\ tags \in TagLists
  /\ indicator_id \in IndicatorIds
  /\ t = 1
  /\ ATTACK_MAPPING \in Mappings
  /\ state = EmptyState
  /\ result = NoResult
  /\ attack_response = <<>>
  /\ rules = <<>>
  /\ i = 1
  /\ indicator = indicator_id
  /\ refs = <<>> /\ obj_id = "" /\ r = 0
  /\ trace = <<>>
  /\ exc = None
  /\ runs = 1
  /\ now = 0

NextTags ==
  \/ AddTag
  \/ TagsReturn

SpecTags == InitTags /\ [][NextTags]_vars

\* ------------------------------------------- _add_refs_for_id on its own
URL_UPPER == <<"H","T","T","P",":","/","/","a","/","p">>
URL_QUERY == <<"h","t","t","p",":","/","/","a","/","p","?">>
URL_BAD == <<"h","t","t","p",":","/","/","[","a","/","p">>
URL_NOSLASH == <<"h","t","t","p",":","p">>
NOSCHEME == <<"a", " ", "p">>
RefValues == {DASH, URL_A, URL_UPPER, URL_QUERY, URL_BAD, URL_NOSLASH, NOSCHEME, <<>>}
RefLists == SeqsUpTo(RefValues, MaxRefs)

InitRefs ==
  /\ pc = "refs"
  /\ refs \in RefLists
  /\ obj_id \in {"", "indicator--1"}
  /\ r = 1
  /\ ATTACK_MAPPING = EmptyMapping
  /\ state = EmptyState
  /\ result = NoResult
  /\ attack_response = <<>>
  /\ rules = <<>>
  /\ i = 1
  /\ indicator = obj_id
  /\ tags = <<>> /\ indicator_id = "" /\ t = 0
  /\ trace = <<>>
  /\ exc = None
  /\ runs = 1
  /\ now = 0

NextRefs ==
  \/ AddRef
  \/ RefsReturn

SpecRefs == InitRefs /\ [][NextRefs]_vars

\* ============================================================ properties
\* positions of the trace whose event satisfies P
Idx(P(_)) == {k \in 1..Len(trace) : P(trace[k])}

FeedFetchFailed == Idx(LAMBDA e : e.op = "get_rules_json" /\ e.res \in FetchFailures) # {}
TaxonomyFetchFailed == Idx(LAMBDA e : e.op = "requests.get" /\ e.res \in FetchFailures) # {}
TaxonomyFetched == Idx(LAMBDA e : e.op = "requests.get" /\ e.res = Ok) # {}

\* the outcome of signature s's indicator.create in this run, None before it
CreateOutcome(s) ==
  LET ks == Idx(LAMBDA e : e.op = "indicator.create" /\ e.sig = s)
  IN IF ks = {} THEN None ELSE trace[SetMin(ks)].res

\* requests made on behalf of signature s after its indicator creation
SubStepOps ==
  {"external_reference.create", "stix_entity.add_external_reference",
   "attack_pattern.read", "intrusion_set.read", "stix_relation.create",
   "tag.create", "stix_entity.add_tag"}
\* among them, those that name the indicator they act on
CarriesIndicator ==
  {"stix_entity.add_external_reference", "stix_relation.create", "stix_entity.add_tag"}

\* the signature whose sub-steps were entered last
CurSig == IF pc = "loop" THEN i - 1 ELSE i

\* C1: if the feed fetch fails, run returns the prior checkpoint unchanged and
\* requests no graph-store write.
C1_FeedFailureReturnsPriorState ==
  (pc = "returned" /\ FeedFetchFailed) =>
    /\ result = state
    /\ Idx(LAMBDA e : e.op \in WriteOps) = {}

\* C2: when the indicator creation of signature k fails (and nothing else
\* does), run returns normally and every later signature is processed fully:
\* its indicator is requested and each of its references and tags is attached
\* to its own indicator.
OnlyIndicatorCreationsFailed ==
  Idx(LAMBDA e : e.res = Raised /\ e.op # "indicator.create") = {}
AttachedToOwn(s) ==
  LET own == CreateOutcome(s)
  IN /\ own # None
     /\ own # Raised =>
          /\ \A p \in 1..Len(rules[s].tags) :
               Idx(LAMBDA e : e.op = "stix_entity.add_tag" /\ e.sig = s /\ e.pos = p
                              /\ e.id = own) # {}
          /\ (rules[s].reference # DASH /\ ~urlparse(rules[s].reference).error) =>
               Idx(LAMBDA e : e.op = "stix_entity.add_external_reference" /\ e.sig = s
                              /\ e.id = own) # {}
C2_LaterSignaturesProcessed ==
  (pc \in {"returned", "raised"} /\ OnlyIndicatorCreationsFailed) =>
    \A k \in 1..Len(rules) :
      CreateOutcome(k) = Raised =>
        /\ pc = "returned"
        /\ \A j \in (k + 1)..Len(rules) : AttachedToOwn(j)

\* C3: every attachment or relationship request made while signature s is
\* processed carries the identifier that s's own indicator creation returned;
\* a signature whose indicator creation failed gets no such request.
C3_OwnIndicatorOnly ==
  \A k \in 1..Len(trace) :
    (trace[k].op \in SubStepOps /\ trace[k].sig >= 1) =>
      /\ CreateOutcome(trace[k].sig) \notin {None, Raised}
      /\ trace[k].op \in CarriesIndicator => trace[k].id = CreateOutcome(trace[k].sig)

\* C4: in a run whose taxonomy fetch fails the mapping is empty, so no
\* "indicates" relationship is requested in that run.
C4_FailedTaxonomyMeansEmptyMapping ==
  TaxonomyFetchFailed =>
    /\ ATTACK_MAPPING = EmptyMapping
    /\ Idx(LAMBDA e : e.op = "stix_relation.create") = {}

\* C5: after a build over a dataset that was fetched and parsed, the index has
\* an entry for E iff some object of a recognized type has E as the non-empty
\* external id of its first external reference and a non-empty id; the entry
\* is the id of the last such object.
Qualifies(obj, E) ==
  /\ obj.type \in {"attack-pattern", "intrusion-set"}
  /\ Len(obj.external_references) >= 1
  /\ obj.external_references[1] = E
  /\ E # NoneChars /\ E # <<>>
  /\ obj.id # ""
ExternalIdsSeen ==
  {T1059, G0016, NoneChars, <<>>} \cup DOMAIN ATTACK_MAPPING
C5_IndexMatchesDataset ==
  (pc = "process" /\ TaxonomyFetched) =>
    \A E \in ExternalIdsSeen :
      LET ks == {k \in 1..Len(attack_response) : Qualifies(attack_response[k], E)}
      IN /\ (E \in DOMAIN ATTACK_MAPPING) <=> (ks # {})
         /\ ks # {} =>
              ATTACK_MAPPING[E] = attack_response[CHOOSE k \in ks : \A m \in ks : m <= k].id

\* C9: a store failure in a reference or tag sub-step never leaves run as an
\* exception.
C9_StoreFailureCaught ==
  Idx(LAMBDA e : e.op \in SubStepOps /\ e.res = Raised) # {} => pc # "raised"

\* ------------------------------------------- the tag resolver (SpecTags)
\* events of the resolver call for the tag at position p
AtPos(p, ops) == Idx(LAMBDA e : e.sig = CurSig /\ e.pos = p /\ e.op \in ops)
Only(S) == CHOOSE x \in S : TRUE

\* C6: every tag of the list that the resolver has handled produced exactly one
\* tag.create carrying the tag's text and, after it, exactly one add_tag that
\* attaches the created label to the indicator, whatever the tag's shape, the
\* index and the store's answer to the read; a tag not yet handled produced
\* none.
C6_OneLabelPerTag ==
  pc \in {"tags", "loop", "raised"} =>
    \A p \in 1..Len(tags) :
      LET creates == AtPos(p, {"tag.create"})
          attaches == AtPos(p, {"stix_entity.add_tag"})
      IN /\ p < t =>
              /\ Cardinality(creates) = 1
              /\ Cardinality(attaches) = 1
              /\ trace[Only(creates)].value = tags[p]
              /\ trace[Only(creates)].res \in LabelIds
              /\ trace[Only(attaches)].id = indicator_id
              /\ trace[Only(attaches)].other = trace[Only(creates)].res
              /\ Only(creates) < Only(attaches)
         /\ p > t => creates = {} /\ attaches = {}
         /\ p = t => Cardinality(creates) <= 1 /\ Cardinality(attaches) <= 1

\* the resolver returned after a T-shaped tag that was found and related, a
\* G-shaped tag missing from the index, or a plain tag
C6_Witness ==
  /\ pc = "loop"
  /\ Len(tags) = 2
  /\ tags[1] = T1059 /\ tags[2] \in {G0016, APT}
  /\ G0016 \notin DOMAIN ATTACK_MAPPING
  /\ AtPos(1, {"stix_relation.create"}) # {}
  /\ AtPos(2, {"stix_entity.add_tag"}) # {}

\* C7: a handled tag produced exactly one "indicates" relationship request,
\* from the indicator to index[tag] with the type of the tag's shape, when it
\* has one of the two shapes, index[tag] is present and non-empty and the read
\* of index[tag] (made before the request) returned an entity; in every other
\* case it produced none, and the outcome was logged as information only.  No
\* tag triggers more than one relationship request.
ShapeType(tag) ==
  IF ReSearchShape("T", tag) THEN "Attack-Pattern"
  ELSE IF ReSearchShape("G", tag) THEN "Intrusion-Set"
  ELSE None
ShapeRead(tag) ==
  IF ReSearchShape("T", tag) THEN "attack_pattern.read" ELSE "intrusion_set.read"
C7_RelationshipIffResolved ==
  pc \in {"tags", "loop", "raised"} =>
    \A p \in 1..Len(tags) :
      LET tag == tags[p]
          target == IF tag \in DOMAIN ATTACK_MAPPING THEN ATTACK_MAPPING[tag] ELSE None
          found == ShapeType(tag) # None /\ target # None /\ target # ""
          reads == AtPos(p, ReadOps)
          rels == AtPos(p, {"stix_relation.create"})
          infos == AtPos(p, {"log_info"})
      IN /\ Cardinality(rels) <= 1
         /\ \A k \in rels :
              /\ reads # {} /\ \A q \in reads : q < k /\ trace[q].res = Entity
              /\ trace[k].id = indicator_id
              /\ trace[k].other = target
              /\ trace[k].toType = ShapeType(tag)
         /\ ~found => reads = {} /\ rels = {}
         /\ p < t =>
              /\ AtPos(p, {"log_error"}) = {}
              /\ found =>
                   /\ Cardinality(reads) = 1
                   /\ trace[Only(reads)].op = ShapeRead(tag)
                   /\ trace[Only(reads)].other = target
                   /\ (trace[Only(reads)].res = Entity) <=> (rels # {})
                   /\ (trace[Only(reads)].res = Absent) <=> (infos # {})
              /\ (ShapeType(tag) # None /\ ~found) => Cardinality(infos) = 1
              /\ ShapeType(tag) = None => infos = {}

\* the resolver returned after a G-shaped tag whose node the store holds and
\* a T-shaped tag whose node it does not hold
C7_Witness ==
  /\ pc = "loop"
  /\ Len(tags) = 2
  /\ tags[1] = G0016 /\ tags[2] = T1059
  /\ \E k \in AtPos(1, {"stix_relation.create"}) : trace[k].toType = "Intrusion-Set"
  /\ \E k \in AtPos(2, {"attack_pattern.read"}) : trace[k].res = Absent
  /\ AtPos(2, {"stix_relation.create"}) = {}

\* ---------------------------------------- the reference linker (SpecRefs)
\* C8: with a non-empty indicator id, every handled reference other than "-"
\* whose URL parses produced exactly one external_reference.create (url the
\* normalized URL, description "Rule Reference: " + that URL) and, after it,
\* exactly one attachment of the created reference to the indicator; "-"
\* produced nothing; a reference whose URL does not parse produced only an
\* error log and the linker went on; requests follow the listed order.  With
\* an empty indicator id or an empty list nothing is requested.  Only a raising
\* store call ends the linker abnormally.
C8_OneReferencePerValidUrl ==
  pc \in {"refs", "after_refs", "raised"} =>
    /\ (obj_id = "" \/ refs = <<>>) => trace = <<>>
    /\ \A a, b \in 1..Len(trace) : a < b => trace[a].pos <= trace[b].pos
    /\ pc = "raised" => trace # <<>> /\ trace[Len(trace)].res = Raised
    /\ obj_id # "" =>
         \A p \in 1..Len(refs) :
           LET ref == refs[p]
               creates == AtPos(p, {"external_reference.create"})
               attaches == AtPos(p, {"stix_entity.add_external_reference"})
               errors == AtPos(p, {"log_error"})
           IN /\ p > r => creates = {} /\ attaches = {} /\ errors = {}
              /\ p < r =>
                   IF ref = DASH
                   THEN creates = {} /\ attaches = {} /\ errors = {}
                   ELSE IF urlparse(ref).error
                   THEN creates = {} /\ attaches = {} /\ Cardinality(errors) = 1
                   ELSE /\ errors = {}
                        /\ Cardinality(creates) = 1
                        /\ Cardinality(attaches) = 1
                        /\ trace[Only(creates)].value = geturl(urlparse(ref))
                        /\ trace[Only(creates)].description
                             = RuleReferencePrefix \o geturl(urlparse(ref))
                        /\ trace[Only(attaches)].id = obj_id
                        /\ trace[Only(attaches)].other = trace[Only(creates)].res
                        /\ Only(creates) < Only(attaches)

\* the linker returned after a URL that does not parse and, after it, a URL
\* that was normalized and attached
C8_Witness ==
  /\ pc = "after_refs"
  /\ refs = <<URL_BAD, URL_UPPER>>
  /\ \E k \in AtPos(2, {"external_reference.create"}) : trace[k].value = URL_A
  /\ AtPos(2, {"stix_entity.add_external_reference"}) # {}

\* ------------------------------------------------ the order of a run (Spec)
PhaseOf(e) ==
  IF e.op = "indicator.create" \/ (e.op = "log_error" /\ e.pos = 0) THEN 0
  ELSE IF e.op \in {"external_reference.create", "stix_entity.add_external_reference"}
          \/ e.op = "log_error"
  THEN 1
  ELSE 2

RunOrder ==
  /\ Len(trace) >= 1 => trace[1].op = "log_info" /\ trace[1].sig = 0
  /\ Len(trace) >= 2 => trace[2].op = "requests.get"
  /\ \A k \in 1..Len(trace) :
       LET e == trace[k]
       IN /\ e.op = "requests.get" => k = 2
          /\ e.op = "get_rules_json" =>
               k \in {3, 4} /\ trace[k - 1].op \in {"requests.get", "log_error"}
          /\ e.sig >= 1 =>
               /\ e.sig <= Len(rules)
               /\ e.op = "tag.create" => e.value = rules[e.sig].tags[e.pos]
               /\ e.op = "external_reference.create" =>
                    e.pos = 1 /\ e.value = geturl(urlparse(rules[e.sig].reference))
  /\ \A k \in 1..(Len(trace) - 1) :
       LET a == trace[k]
           b == trace[k + 1]
       IN /\ (a.sig = 0 /\ b.sig >= 1) =>
               /\ a.op = "get_rules_json" /\ a.res = Ok
               /\ b.op = "indicator.create" /\ b.sig = 1
          /\ (a.sig >= 1 /\ b.sig = 0) => b.op = "log_info" /\ k + 1 = Len(trace)
          /\ (a.sig >= 1 /\ b.sig >= 1) =>
               /\ (b.op = "indicator.create") <=> (b.sig = a.sig + 1)
               /\ b.op # "indicator.create" =>
                    /\ b.sig = a.sig
                    /\ PhaseOf(a) <= PhaseOf(b)
                    /\ PhaseOf(a) = PhaseOf(b) => a.pos <= b.pos

\* C10: in every run the index build comes first, then the feed fetch, then the
\* signatures in feed order, each with its indicator creation, then its
\* reference requests, then its tag requests in listed order, before the next
\* signature's indicator creation; and the index changes in the build only.
C10_RunOrder ==
  /\ []RunOrder
  /\ [][pc # "build" => ATTACK_MAPPING' = ATTACK_MAPPING]_vars

\* a run returned after two signatures, each with a reference and two tags, the
\* first tag resolved through the index that the run built
C10_Witness ==
  /\ pc = "returned"
  /\ Len(rules) = 2
  /\ \A s \in 1..2 :
       /\ Idx(LAMBDA e : e.op = "stix_entity.add_external_reference" /\ e.sig = s) # {}
       /\ Idx(LAMBDA e : e.op = "stix_relation.create" /\ e.sig = s /\ e.pos = 1) # {}
       /\ Idx(LAMBDA e : e.op = "stix_entity.add_tag" /\ e.sig = s /\ e.pos = 2) # {}

====
